---- MODULE Spec2Model ----
(***************************************************************************)
(* A model of src/main.py: the etf_flows table, the update run             *)
(* (GET /api/update, update_flows) and the read endpoint                   *)
(* (GET /api/flows/{crypto_type}, get_flows with get_business_days).       *)
(*                                                                         *)
(* Dates are proleptic ordinals as in Python (ordinal 1 = 0001-01-01, a    *)
(* Monday = datetime.min).  A source row is [date, flow], flow standing    *)
(* for Volume * Close / 1e6 of the row (lines 147, 167, 176 compute the    *)
(* same product for daily_flow and aum).                                   *)
(***************************************************************************)
EXTENDS Integers, Sequences, FiniteSets

\* ------------------------------------------------------------------ bounds
\* rows the data source yields in one update run, all tickers together
MaxRows == 3
\* source rows carry dates 1..MaxDate
MaxDate == 3
\* source rows carry flows 0..MaxFlow
MaxFlow == 1
\* rows of the table a read request starts from
MaxRecs == 2
\* rows the data source yields to one of two overlapping update runs
MaxConcRows == 1
\* a read request asks for 0..MaxDays days
MaxDays == 3
\* the clock of a read request shows a day MinOrdinal..MaxToday
MaxToday == 8

\* ---------------------------------------------------------------- constants
\* The ETF lists of lines 52-53, cut to their first tickers.
BTC_ETFS == <<"IBIT", "FBTC">>
ETH_ETFS == <<"ETHA">>

\* for etf_list, crypto_type in [(BTC_ETFS,'BTC'),(ETH_ETFS,'ETH')]: for ticker in etf_list
Schedule ==
  [i \in 1..(Len(BTC_ETFS) + Len(ETH_ETFS)) |->
     IF i <= Len(BTC_ETFS)
       THEN [ticker |-> BTC_ETFS[i], type |-> "BTC"]
       ELSE [ticker |-> ETH_ETFS[i - Len(BTC_ETFS)], type |-> "ETH"]]

NTickers == Len(Schedule)
Tickers == {Schedule[i].ticker : i \in 1..NTickers}
Dates == 1..MaxDate
\* datetime.min is 0001-01-01 00:00, ordinal 1, a Monday
MinOrdinal == 1
\* the time of day of datetime.now(): a morning and an evening
TimesOfDay == {"09:30", "18:00"}
\* crypto_type as the caller may send it
CryptoTypes == {"BTC", "eth", "DOGE"}
Flows == 0..MaxFlow

VARIABLES
  store,     \* the etf_flows table: a sequence of rows (no uniqueness constraint)
  pc,        \* position of the update handler: "idle", "fetch", "rows"
  k,         \* index into Schedule of the ticker being processed
  result,    \* what the last update run returned: "none", "success", "error"
  nrows,     \* rows yielded by the data source in this run
  seen,      \* history: per ticker, the source rows processed to the commit (date -> flow)
  dropped,   \* history: per ticker, the source row lost to a store error, if any
  outcome,   \* history: per ticker, how its processing ended in this run
  storeErr,  \* history: a store statement failed in this run
  req,       \* the read request being served: crypto_type, days, and the clock's day
  resp,      \* its response (status 0: none yet)
  procs      \* overlapping update requests: each one's position and local values

vars == <<store, pc, k, result, nrows, seen, dropped, outcome, storeErr, req, resp, procs>>

\* ------------------------------------------------------------- the table
\* class ETFFlow (the surrogate id is the position in the sequence)
ETFFlow(ticker, type, date, daily_flow, cumulative_flow, aum) ==
  [ticker |-> ticker, type |-> type, date |-> date, daily_flow |-> daily_flow,
   cumulative_flow |-> cumulative_flow, aum |-> aum]

RowsOf(st, ticker) == {st[i] : i \in {j \in DOMAIN st : st[j].ticker = ticker}}

\* db.query(ETFFlow).filter(ticker == t, date < d).order_by(date.desc()).first():
\* the rows it may return (indices); empty when there is none.
PrevFlow(st, ticker, flow_date) ==
  LET earlier == {i \in DOMAIN st : st[i].ticker = ticker /\ st[i].date < flow_date}
  IN  {i \in earlier : \A j \in earlier : st[j].date <= st[i].date}

\* the existence check left out: every row is taken for new
ExistingFlowNone(st, ticker, flow_date) == {}

\* db.query(ETFFlow).filter(ticker == t, date == d).first(): the rows it may return.
ExistingFlow(st, ticker, flow_date) ==
  {i \in DOMAIN st : st[i].ticker = ticker /\ st[i].date = flow_date}

\* the previous record's cumulative flow left out of the sum
CumulativeFlowNoPrev(st, prev, daily_flow) == daily_flow

\* cumulative_flow = float((prev_flow.cumulative_flow if prev_flow else 0) + daily_flow)
CumulativeFlow(st, prev, daily_flow) ==
  (IF prev = 0 THEN 0 ELSE st[prev].cumulative_flow) + daily_flow

\* the overwrite branch left out: a new record is added whatever exists
UpsertInsertOnly(st, existing, ticker, type, flow_date, daily_flow, cumulative_flow) ==
  Append(st, [ticker |-> ticker, type |-> type, date |-> flow_date,
              daily_flow |-> daily_flow, cumulative_flow |-> cumulative_flow,
              aum |-> daily_flow])

\* if existing_flow: overwrite its three fields; else: db.add(new_flow); then db.commit()
Upsert(st, existing, ticker, type, flow_date, daily_flow, cumulative_flow) ==
  IF existing # 0
    THEN [st EXCEPT ![existing] = [@ EXCEPT !.daily_flow = daily_flow,
                                            !.cumulative_flow = cumulative_flow,
                                            !.aum = daily_flow]]
    ELSE Append(st, ETFFlow(ticker, type, flow_date, daily_flow, cumulative_flow, daily_flow))

OrNone(S) == IF S = {} THEN {0} ELSE S

\* ------------------------------------------------------------- histories
NoRow == [date |-> 0, flow |-> 0]

Put(S, d, f) == {r \in S : r.date # d} \cup {[date |-> d, flow |-> f]}

LastDate(S) == IF S = {} THEN 0 ELSE CHOOSE d \in {r.date : r \in S} : \A r \in S : r.date <= d

Fresh == [t \in Tickers |-> {}]

NoReq == [crypto_type |-> "", days |-> 0, today |-> 0]
NoResp == [status |-> 0]

\* the update requests that overlap, each served by a worker with a session of its own
Procs == {1, 2}
Starting ==
  [pc |-> "start", k |-> 1, n |-> 0, last |-> 0, flow_date |-> 0, daily_flow |-> 0,
   cumulative_flow |-> 0, existing |-> 0]

Init ==
  /\ store = <<>>
  /\ pc = "idle"
  /\ k = 1
  /\ result = "none"
  /\ nrows = 0
  /\ seen = Fresh
  /\ dropped = [t \in Tickers |-> NoRow]
  /\ outcome = [t \in Tickers |-> "none"]
  /\ storeErr = FALSE
  /\ req = NoReq
  /\ resp = NoResp
  /\ procs = [p \in Procs |-> Starting]

\* ------------------------------------------------------------ update_flows
\* lines 127-131: a new run; TRUNCATE TABLE etf_flows; commit
Truncate ==
  /\ pc = "idle"
  /\ store' = <<>>
  /\ pc' = "fetch"
  /\ k' = 1
  /\ result' = "none"
  /\ nrows' = 0
  /\ seen' = Fresh
  /\ dropped' = [t \in Tickers |-> NoRow]
  /\ outcome' = [t \in Tickers |-> "none"]
  /\ storeErr' = FALSE
  /\ UNCHANGED <<req, resp, procs>>

\* lines 130-131 raise: except at 189-191 rolls back and raises HTTP 500
TruncateFails ==
  /\ pc = "idle"
  /\ pc' = "idle"
  /\ k' = 1
  /\ result' = "error"
  /\ nrows' = 0
  /\ seen' = Fresh
  /\ dropped' = [t \in Tickers |-> NoRow]
  /\ outcome' = [t \in Tickers |-> "none"]
  /\ storeErr' = TRUE
  /\ UNCHANGED store
  /\ UNCHANGED <<req, resp, procs>>

\* what the per-ticker handler of lines 184-186 does: print, continue
NextTicker(how) ==
  /\ outcome' = [outcome EXCEPT ![Schedule[k].ticker] = how]
  /\ k' = k + 1
  /\ pc' = "fetch"

\* lines 138-139: yf.Ticker(ticker).history(period="max") returns.  The code
\* reads the series only through its iterator, so its rows are drawn one by one
\* where the loop of line 142 takes them.
FetchHistory ==
  /\ pc = "fetch"
  /\ k <= NTickers
  /\ pc' = "rows"
  /\ UNCHANGED <<store, k, result, nrows, seen, dropped, outcome, storeErr>>
  /\ UNCHANGED <<req, resp, procs>>

\* the fetch outside the per-ticker handler: its error ends the run at lines 189-191
FetchFailsAborts ==
  /\ pc = "fetch"
  /\ k <= NTickers
  /\ outcome' = [outcome EXCEPT ![Schedule[k].ticker] = "fetch_failed"]
  /\ pc' = "idle"
  /\ result' = "error"
  /\ UNCHANGED <<store, k, nrows, seen, dropped, storeErr, req, resp, procs>>

\* lines 138-139 raise (unknown symbol, source error, malformed response)
FetchFails ==
  /\ pc = "fetch"
  /\ k <= NTickers
  /\ NextTicker("fetch_failed")
  /\ UNCHANGED <<store, result, nrows, seen, dropped, storeErr>>
  /\ UNCHANGED <<req, resp, procs>>

\* lines 142-182: the iterator yields the next row (the series is in ascending
\* date order, a date may repeat); the row is looked up, upserted and committed.
ProcessRow ==
  /\ pc = "rows"
  /\ nrows < MaxRows
  /\ LET ticker == Schedule[k].ticker
         type == Schedule[k].type
     IN \E flow_date \in Dates, daily_flow \in Flows :
          /\ flow_date >= LastDate(seen[ticker])
          /\ \E prev \in OrNone(PrevFlow(store, ticker, flow_date)),
                existing \in OrNone(ExistingFlow(store, ticker, flow_date)) :
               store' = Upsert(store, existing, ticker, type, flow_date, daily_flow,
                               CumulativeFlow(store, prev, daily_flow))
          /\ seen' = [seen EXCEPT ![ticker] = Put(@, flow_date, daily_flow)]
  /\ nrows' = nrows + 1
  /\ UNCHANGED <<pc, k, result, dropped, outcome, storeErr>>
  /\ UNCHANGED <<req, resp, procs>>

\* lines 144-147 raise on the yielded row (a malformed row): except at 184-186
RowRaises ==
  /\ pc = "rows"
  /\ nrows < MaxRows
  /\ NextTicker("row_failed")
  /\ nrows' = nrows + 1
  /\ UNCHANGED <<store, result, seen, dropped, storeErr>>
  /\ UNCHANGED <<req, resp, procs>>

\* a store statement of lines 150-182 raises (a query or the commit fails, the
\* connection is lost): nothing of the row is committed; except at 184-186.
\* The handler does not roll the session back; whether its later statements
\* fail as well is left open (each may fail or pass).
RowStoreFails ==
  /\ pc = "rows"
  /\ nrows < MaxRows
  /\ LET ticker == Schedule[k].ticker
     IN \E flow_date \in Dates, daily_flow \in Flows :
          /\ flow_date >= LastDate(seen[ticker])
          /\ dropped' = [dropped EXCEPT ![ticker] = [date |-> flow_date, flow |-> daily_flow]]
  /\ NextTicker("store_failed")
  /\ nrows' = nrows + 1
  /\ storeErr' = TRUE
  /\ UNCHANGED <<store, result, seen>>
  /\ UNCHANGED <<req, resp, procs>>

\* line 142: the iterator is exhausted
EndHistory ==
  /\ pc = "rows"
  /\ NextTicker("ok")
  /\ UNCHANGED <<store, result, nrows, seen, dropped, storeErr>>
  /\ UNCHANGED <<req, resp, procs>>

\* line 188: return {"status": "success"}
ReturnSuccess ==
  /\ pc = "fetch"
  /\ k > NTickers
  /\ pc' = "idle"
  /\ result' = "success"
  /\ UNCHANGED <<store, k, nrows, seen, dropped, outcome, storeErr>>
  /\ UNCHANGED <<req, resp, procs>>

Next ==
  \/ Truncate
  \/ TruncateFails
  \/ FetchHistory
  \/ FetchFails
  \/ ProcessRow
  \/ RowRaises
  \/ RowStoreFails
  \/ EndHistory
  \/ ReturnSuccess

Spec == Init /\ [][Next]_vars

\* ------------------------------------------------------- get_business_days
\* datetime.weekday(): Monday = 0 ... Sunday = 6
weekday(dt) == (dt.ord - 1) % 7

\* the weekday test off by one: Saturday passes
IsBusinessDayOrSaturday(dt) == (dt.ord - 1) % 7 <= 5

\* line 60: current_date.weekday() < 5
IsBusinessDay(dt) == weekday(dt) < 5

\* lines 59-62, newest first.  current_date -= timedelta(days=1) raises
\* OverflowError when it would leave datetime.min; it runs after every test,
\* also after the append that completes the list.
RECURSIVE BusinessDaysLoop(_, _, _)
BusinessDaysLoop(dates, current_date, n_days) ==
  IF ~(Len(dates) < n_days) THEN [ok |-> TRUE, dates |-> dates]
  ELSE LET appended == IF IsBusinessDay(current_date)
                         THEN Append(dates, current_date) ELSE dates
       IN IF current_date.ord - 1 < MinOrdinal
            THEN [ok |-> FALSE, dates |-> <<>>]
            ELSE BusinessDaysLoop(appended,
                                  [current_date EXCEPT !.ord = @ - 1], n_days)

\* dates[::-1]
Reverse(s) == [i \in 1..Len(s) |-> s[Len(s) + 1 - i]]

\* lines 55-63, with end_date = datetime.now() given
get_business_days(n_days, now) ==
  LET r == BusinessDaysLoop(<<>>, now, n_days)
  IN [ok |-> r.ok, dates |-> Reverse(r.dates)]

\* ---------------------------------------------------------------- get_flows
\* d.date(): the calendar day of a datetime
DateOf(dt) == dt.ord

\* d.strftime('%Y-%m-%d'): a string naming the calendar day, nothing of the time
Strftime(dt) == [ymd |-> dt.ord]

\* crypto_type.upper()
Upper(s) == CASE s = "eth" -> "ETH" [] s = "btc" -> "BTC" [] OTHER -> s

\* line 70
EtfList(crypto_type) == IF Upper(crypto_type) = "BTC" THEN BTC_ETFS ELSE ETH_ETFS

\* lines 78-81: the rows the query selects
Matched(st, etf, business_days) ==
  {i \in DOMAIN st :
     /\ st[i].ticker = etf
     /\ st[i].date \in {DateOf(business_days[j]) : j \in DOMAIN business_days}}

\* the index taken in the list before its reversal
DateIndexNewestFirst(business_days, d) ==
  CHOOSE i \in DOMAIN business_days : business_days[Len(business_days) + 1 - i].ord = d

\* line 92: [d.date() for d in business_days].index(flow.date)
DateIndex(business_days, d) ==
  CHOOSE i \in DOMAIN business_days :
    /\ DateOf(business_days[i]) = d
    /\ \A j \in 1..(i - 1) : DateOf(business_days[j]) # d

\* lines 89-97: the rows in the order the query returned them
RECURSIVE FillFlows(_, _, _, _)
FillFlows(acc, st, flows, business_days) ==
  IF flows = <<>> THEN acc
  ELSE LET flow == st[Head(flows)]
           date_index == DateIndex(business_days, flow.date)
       IN FillFlows([daily_flows |-> [acc.daily_flows EXCEPT ![date_index] = flow.daily_flow],
                     cumulative_flows |->
                       [acc.cumulative_flows EXCEPT ![date_index] = flow.cumulative_flow],
                     aum |-> flow.aum],
                    st, Tail(flows), business_days)

\* lines 77-105 for one etf; rowOrder is the order in which the store returns rows
EtfData(st, etf, business_days, rowOrder) ==
  LET flows == SelectSeq(rowOrder, LAMBDA i : i \in Matched(st, etf, business_days))
      zeros == [i \in 1..Len(business_days) |-> 0]
      filled == FillFlows([daily_flows |-> zeros, cumulative_flows |-> zeros, aum |-> 0],
                          st, flows, business_days)
  IN [ticker |-> etf, daily_flows |-> filled.daily_flows,
      cumulative_flows |-> filled.cumulative_flows, aum |-> filled.aum]

RECURSIVE SumSeq(_)
SumSeq(s) == IF s = <<>> THEN 0 ELSE Head(s) + SumSeq(Tail(s))

\* the sums leaving out the last etf of the list
TotalsButLast(results, n) ==
  [daily |-> [i \in 1..n |-> SumSeq([e \in 1..(Len(results) - 1) |-> results[e].daily_flows[i]])],
   cumulative |->
     [i \in 1..n |-> SumSeq([e \in 1..(Len(results) - 1) |-> results[e].cumulative_flows[i]])],
   total_aum |-> SumSeq([e \in 1..(Len(results) - 1) |-> results[e].aum])]

\* lines 108-112
Totals(results, n) ==
  [daily |-> [i \in 1..n |-> SumSeq([e \in 1..Len(results) |-> results[e].daily_flows[i]])],
   cumulative |->
     [i \in 1..n |-> SumSeq([e \in 1..Len(results) |-> results[e].cumulative_flows[i]])],
   total_aum |-> SumSeq([e \in 1..Len(results) |-> results[e].aum])]

\* the orders in which the queries may return the rows they select (the order of
\* the rows no query selects shows nowhere)
RowOrders(rows) ==
  {p \in [1..Cardinality(rows) -> rows] :
     \A i, j \in 1..Cardinality(rows) : p[i] = p[j] => i = j}

Request(crypto_type, days, now) ==
  [crypto_type |-> crypto_type, days |-> days, today |-> now.ord]

Clock == [ord : MinOrdinal..MaxToday, tod : TimesOfDay]

\* lines 67-68: HTTP 400, before anything else is computed
GetFlowsInvalid ==
  /\ pc = "idle"
  /\ resp = NoResp
  /\ \E crypto_type \in CryptoTypes, days \in 0..MaxDays, now \in Clock :
       /\ Upper(crypto_type) \notin {"BTC", "ETH"}
       /\ req' = Request(crypto_type, days, now)
       /\ resp' = [status |-> 400]
  /\ UNCHANGED <<store, pc, k, result, nrows, seen, dropped, outcome, storeErr, procs>>

\* line 71 raises: the request ends as a server error
GetFlowsOverflow ==
  /\ pc = "idle"
  /\ resp = NoResp
  /\ \E crypto_type \in CryptoTypes, days \in 0..MaxDays, now \in Clock :
       /\ Upper(crypto_type) \in {"BTC", "ETH"}
       /\ ~get_business_days(days, now).ok
       /\ req' = Request(crypto_type, days, now)
       /\ resp' = [status |-> 500]
  /\ UNCHANGED <<store, pc, k, result, nrows, seen, dropped, outcome, storeErr, procs>>

\* lines 66-118
GetFlows ==
  /\ pc = "idle"
  /\ resp = NoResp
  /\ \E crypto_type \in CryptoTypes, days \in 0..MaxDays, now \in Clock :
       /\ Upper(crypto_type) \in {"BTC", "ETH"}
       /\ LET etf_list == EtfList(crypto_type)
              got == get_business_days(days, now)
              business_days == got.dates
              selected == UNION {Matched(store, etf_list[e], business_days) :
                                   e \in 1..Len(etf_list)}
          IN /\ got.ok
             /\ \E rowOrder \in RowOrders(selected) :
                  LET results == [e \in 1..Len(etf_list) |->
                                    EtfData(store, etf_list[e], business_days, rowOrder)]
                  IN resp' = [status |-> 200,
                              dates |-> [i \in 1..Len(business_days) |->
                                           Strftime(business_days[i])],
                              etfs |-> results,
                              totals |-> Totals(results, Len(business_days))]
       /\ req' = Request(crypto_type, days, now)
  /\ UNCHANGED <<store, pc, k, result, nrows, seen, dropped, outcome, storeErr, procs>>

\* the response has gone to the caller
Respond ==
  /\ resp # NoResp
  /\ req' = NoReq
  /\ resp' = NoResp
  /\ UNCHANGED <<store, pc, k, result, nrows, seen, dropped, outcome, storeErr, procs>>

\* The tables a read request may find: what update runs leave, here of at most
\* MaxRecs source rows, processed ticker by ticker in the order of the
\* schedule, each ticker's rows in ascending date order (lines 142-182).
TickerIndex(ticker) == CHOOSE i \in 1..NTickers : Schedule[i].ticker = ticker

LoadRow(st) ==
  UNION {
    {Upsert(st, existing, Schedule[i].ticker, Schedule[i].type, d, f,
            CumulativeFlow(st, prev, f)) :
       prev \in OrNone(PrevFlow(st, Schedule[i].ticker, d)),
       existing \in OrNone(ExistingFlow(st, Schedule[i].ticker, d))} :
    <<i, d, f>> \in {x \in (1..NTickers) \X Dates \X Flows :
                      /\ \A j \in DOMAIN st :
                           /\ TickerIndex(st[j].ticker) <= x[1]
                           /\ st[j].ticker = Schedule[x[1]].ticker => st[j].date <= x[2]}}

RECURSIVE Loaded(_)
Loaded(n) ==
  IF n = 0 THEN {<<>>}
  ELSE LET S == Loaded(n - 1) IN S \cup UNION {LoadRow(st) : st \in S}

InitQuery ==
  /\ store \in Loaded(MaxRecs)
  /\ pc = "idle"
  /\ k = 1
  /\ result = "none"
  /\ nrows = 0
  /\ seen = Fresh
  /\ dropped = [t \in Tickers |-> NoRow]
  /\ outcome = [t \in Tickers |-> "none"]
  /\ storeErr = FALSE
  /\ req = NoReq
  /\ resp = NoResp
  /\ procs = [p \in Procs |-> Starting]

NextQuery ==
  \/ GetFlows
  \/ GetFlowsInvalid
  \/ GetFlowsOverflow
  \/ Respond

SpecQuery == InitQuery /\ [][NextQuery]_vars

\* ------------------------------------------- update_flows, overlapping runs
\* Two update requests served at once by two workers on the one table, each
\* statement a step.  The sessions run at the store's default isolation: a
\* statement sees what is committed.  The store and the source do not fail here.
others == <<pc, k, result, nrows, seen, dropped, outcome, storeErr, req, resp>>

\* a session is inside a transaction on the table from the first query of a row
\* (line 150) to the commit (line 182)
InTransaction(p) == procs[p].pc \in {"check", "write"}

\* lines 130-131: TRUNCATE waits until no other session holds the table
CTruncate(p) ==
  /\ procs[p].pc = "start"
  /\ \A q \in Procs \ {p} : ~InTransaction(q)
  /\ store' = <<>>
  /\ procs' = [procs EXCEPT ![p].pc = "fetch"]
  /\ UNCHANGED others

\* lines 138-139 return
CFetchHistory(p) ==
  /\ procs[p].pc = "fetch"
  /\ procs[p].k <= NTickers
  /\ procs' = [procs EXCEPT ![p].pc = "rows", ![p].last = 0]
  /\ UNCHANGED <<store, others>>

\* lines 138-139 raise: lines 184-186
CFetchFails(p) ==
  /\ procs[p].pc = "fetch"
  /\ procs[p].k <= NTickers
  /\ procs' = [procs EXCEPT ![p].k = @ + 1]
  /\ UNCHANGED <<store, others>>

\* lines 142-155: the next row is yielded; the previous record is looked up
CLookupPrev(p) ==
  /\ procs[p].pc = "rows"
  /\ procs[p].n < MaxConcRows
  /\ \E flow_date \in Dates, daily_flow \in Flows :
       /\ flow_date >= procs[p].last
       /\ \E prev \in OrNone(PrevFlow(store, Schedule[procs[p].k].ticker, flow_date)) :
            procs' = [procs EXCEPT ![p].pc = "check",
                                   ![p].n = @ + 1,
                                   ![p].last = flow_date,
                                   ![p].flow_date = flow_date,
                                   ![p].daily_flow = daily_flow,
                                   ![p].cumulative_flow =
                                      CumulativeFlow(store, prev, daily_flow)]
  /\ UNCHANGED <<store, others>>

\* lines 158-161: is there a record of this date
CCheckExisting(p) ==
  /\ procs[p].pc = "check"
  /\ \E existing \in OrNone(ExistingFlow(store, Schedule[procs[p].k].ticker,
                                         procs[p].flow_date)) :
       procs' = [procs EXCEPT ![p].pc = "write", ![p].existing = existing]
  /\ UNCHANGED <<store, others>>

\* lines 163-182: overwrite or insert, commit
CWrite(p) ==
  /\ procs[p].pc = "write"
  /\ store' = Upsert(store, procs[p].existing, Schedule[procs[p].k].ticker,
                     Schedule[procs[p].k].type, procs[p].flow_date,
                     procs[p].daily_flow, procs[p].cumulative_flow)
  /\ procs' = [procs EXCEPT ![p] = [Starting EXCEPT !.pc = "rows", !.k = procs[p].k,
                                                   !.n = procs[p].n,
                                                   !.last = procs[p].last]]
  /\ UNCHANGED others

\* line 142: the iterator is exhausted
CEndHistory(p) ==
  /\ procs[p].pc = "rows"
  /\ procs' = [procs EXCEPT ![p].pc = "fetch", ![p].k = @ + 1, ![p].last = 0]
  /\ UNCHANGED <<store, others>>

\* line 188
CReturn(p) ==
  /\ procs[p].pc = "fetch"
  /\ procs[p].k > NTickers
  /\ procs' = [procs EXCEPT ![p].pc = "done"]
  /\ UNCHANGED <<store, others>>

NextConc ==
  \E p \in Procs :
    \/ CTruncate(p)
    \/ CFetchHistory(p)
    \/ CFetchFails(p)
    \/ CLookupPrev(p)
    \/ CCheckExisting(p)
    \/ CWrite(p)
    \/ CEndHistory(p)
    \/ CReturn(p)

SpecConc == Init /\ [][NextConc]_vars

\* ------------------------------------------------- the update run's claims
RECURSIVE SumFlows(_)
SumFlows(S) ==
  IF S = {} THEN 0
  ELSE LET r == CHOOSE x \in S : TRUE IN r.flow + SumFlows(S \ {r})

\* The rows a ticker's history stands for: one per date, the running sum in date order.
Expected(ticker, S) ==
  {ETFFlow(ticker, Schedule[TickerIndex(ticker)].type, r.date, r.flow,
           SumFlows({x \in S : x.date <= r.date}), r.flow) : r \in S}

\* The history the data source held for a ticker in this run, as far as it was read.
Upstream(ticker) ==
  IF dropped[ticker] = NoRow THEN seen[ticker]
  ELSE Put(seen[ticker], dropped[ticker].date, dropped[ticker].flow)

Failed(ticker) == outcome[ticker] \in {"fetch_failed", "row_failed", "store_failed"}
SourceFailed(ticker) == outcome[ticker] \in {"fetch_failed", "row_failed"}
RunEnded == pc = "idle" /\ result # "none"

\* C1: every stored record's cumulative_flow is the cumulative_flow of the same
\* ticker's record with the greatest strictly-earlier date plus its own daily_flow,
\* or its own daily_flow when the ticker has no earlier record (the source yields
\* every series in ascending date order).
CumulativeChain ==
  \A i \in DOMAIN store :
    LET earlier == {j \in DOMAIN store :
                      store[j].ticker = store[i].ticker /\ store[j].date < store[i].date}
        latest == {j \in earlier : \A m \in earlier : store[m].date <= store[j].date}
    IN IF earlier = {}
         THEN store[i].cumulative_flow = store[i].daily_flow
         ELSE \A j \in latest :
                store[i].cumulative_flow = store[j].cumulative_flow + store[i].daily_flow

\* C1 witness: a ticker holds two records of different dates, both with a flow.
CumulativeChainWitness ==
  \E i, j \in DOMAIN store :
    /\ store[i].ticker = store[j].ticker
    /\ store[j].date < store[i].date
    /\ store[j].daily_flow > 0
    /\ store[i].daily_flow > 0
    /\ pc = "rows"

\* C2: the store never holds two records with the same (ticker, date).
NoDuplicatePair ==
  \A i, j \in DOMAIN store :
    (store[i].ticker = store[j].ticker /\ store[i].date = store[j].date) => i = j

\* C2 witness: a series repeated a date, and the row of that date was overwritten.
NoDuplicatePairWitness ==
  /\ nrows > Len(store)
  /\ ~storeErr
  /\ \A t \in Tickers : outcome[t] # "row_failed"
  /\ \E i \in DOMAIN store : store[i].daily_flow > 0

\* C3: a run in which the data source failed for exactly one ticker, and nothing
\* else failed, ends with status success, has processed every ticker, and the
\* store holds for every other ticker exactly the rows of its source history.
OneSourceFailure ==
  (/\ RunEnded
   /\ ~storeErr
   /\ Cardinality({t \in Tickers : SourceFailed(t)}) = 1)
  => /\ result = "success"
     /\ \A t \in Tickers :
          ~Failed(t) =>
            /\ outcome[t] = "ok"
            /\ RowsOf(store, t) = Expected(t, seen[t])
            /\ Cardinality({i \in DOMAIN store : store[i].ticker = t})
                 = Cardinality(seen[t])

\* C3 witness: the first ticker's fetch failed and both later tickers, one of
\* each category, have their rows.
OneSourceFailureWitness ==
  /\ RunEnded
  /\ result = "success"
  /\ ~storeErr
  /\ outcome[BTC_ETFS[1]] = "fetch_failed"
  /\ \A t \in Tickers \ {BTC_ETFS[1]} : outcome[t] = "ok" /\ RowsOf(store, t) # {}

\* C4: after a run that returned success, the store holds for every ticker
\* exactly the rows of the history the data source held for it, whatever the
\* store held before.
StoreFromUpstreamOnly ==
  (RunEnded /\ result = "success")
  => \A t \in Tickers :
       /\ RowsOf(store, t) = Expected(t, Upstream(t))
       /\ Cardinality({i \in DOMAIN store : store[i].ticker = t})
            = Cardinality(Upstream(t))

\* C5: a run in which a store statement failed never reports success.
StoreErrorReported == storeErr => result # "success"

Answered == resp # NoResp /\ Upper(req.crypto_type) \in {"BTC", "ETH"}

IsWeekday(d) == (d - 1) % 7 < 5

\* the weekdays after datetime.min's day up to the clock's day
WeekdaysAfterMin(today) == Cardinality({d \in (MinOrdinal + 1)..today : IsWeekday(d)})

\* what C7 says of the dates of a response
GoodDates(dates, days, today) ==
  /\ Len(dates) = days
  /\ \A i \in 1..Len(dates) : IsWeekday(dates[i].ymd)
  /\ \A i \in 1..(Len(dates) - 1) : dates[i].ymd < dates[i + 1].ymd
  /\ days >= 1 =>
       /\ dates[days].ymd <= today
       /\ \A d \in (dates[days].ymd + 1)..today : ~IsWeekday(d)

RowsAt(ticker, d) == {r \in RowsOf(store, ticker) : r.date = d}

\* C8: every ticker of the category, in the order of its list, has daily_flows
\* and cumulative_flows of length days; position i holds the stored record's
\* values for (ticker, dates[i]) when there is such a record and 0 otherwise; a
\* ticker with no record in the window has aum 0.
DenseSeries ==
  (Answered /\ resp.status = 200)
  => LET etf_list == EtfList(req.crypto_type)
     IN /\ Len(resp.etfs) = Len(etf_list)
        /\ \A e \in 1..Len(etf_list) :
             LET etf == resp.etfs[e]
             IN /\ etf.ticker = etf_list[e]
                /\ Len(etf.daily_flows) = req.days
                /\ Len(etf.cumulative_flows) = req.days
                /\ \A i \in 1..req.days :
                     IF RowsAt(etf.ticker, resp.dates[i].ymd) = {}
                       THEN etf.daily_flows[i] = 0 /\ etf.cumulative_flows[i] = 0
                       ELSE \E r \in RowsAt(etf.ticker, resp.dates[i].ymd) :
                              /\ etf.daily_flows[i] = r.daily_flow
                              /\ etf.cumulative_flows[i] = r.cumulative_flow
                /\ (\A i \in 1..req.days : RowsAt(etf.ticker, resp.dates[i].ymd) = {})
                     => etf.aum = 0

\* C8 witness: one ticker has a record at the second of three dates and none at
\* the others, and another ticker of the category has no record at all.
DenseSeriesWitness ==
  /\ Answered
  /\ resp.status = 200
  /\ req.days = 3
  /\ Len(resp.etfs) = 2
  /\ resp.etfs[1].daily_flows = <<0, 1, 0>>
  /\ resp.etfs[1].cumulative_flows[2] = 2
  /\ RowsOf(store, resp.etfs[2].ticker) = {}
  /\ resp.etfs[2].aum = 0

\* C9: totals.daily[i] and totals.cumulative[i] are the sums over the returned
\* tickers of daily_flows[i] and cumulative_flows[i], and totals.total_aum is
\* the sum of their aum.
RECURSIVE SumOver(_, _)
SumOver(values, n) == IF n = 0 THEN 0 ELSE values[n] + SumOver(values, n - 1)

TotalsAreSums ==
  (Answered /\ resp.status = 200)
  => LET n == Len(resp.etfs)
     IN /\ Len(resp.totals.daily) = req.days
        /\ Len(resp.totals.cumulative) = req.days
        /\ \A i \in 1..req.days :
             /\ resp.totals.daily[i] = SumOver([e \in 1..n |-> resp.etfs[e].daily_flows[i]], n)
             /\ resp.totals.cumulative[i]
                  = SumOver([e \in 1..n |-> resp.etfs[e].cumulative_flows[i]], n)
        /\ resp.totals.total_aum = SumOver([e \in 1..n |-> resp.etfs[e].aum], n)

\* C9 witness: two tickers have a flow on the same date.
TotalsAreSumsWitness ==
  /\ Answered
  /\ resp.status = 200
  /\ Len(resp.etfs) = 2
  /\ \E i \in 1..req.days :
       /\ resp.etfs[1].daily_flows[i] > 0
       /\ resp.etfs[2].daily_flows[i] > 0
       /\ resp.totals.daily[i] = resp.etfs[1].daily_flows[i] + resp.etfs[2].daily_flows[i]
  /\ resp.totals.total_aum > 1

\* ----------------------------------------------- the overlapping runs' claim
\* C10: whatever the interleaving of two overlapping update runs, the store
\* never holds two records with the same (ticker, date).
OverlappingRunsNoDuplicate ==
  \A i \in DOMAIN store : \A j \in DOMAIN store \ {i} :
    ~(store[i].ticker = store[j].ticker /\ store[i].date = store[j].date)

====
